---- MODULE Spec2Model ----
(***************************************************************************)
(* A model of oxidex: the Context container (src/src/lib.rs) and its four  *)
(* format contracts (src/src/json.rs, toml.rs, yaml.rs, xml.rs).           *)
(*                                                                         *)
(* Strings are sequences of byte values, so that the ordering of keys is   *)
(* the byte-wise ordering of a Rust String.  Integers are a sign and a     *)
(* sequence of decimal digits, so that the 64-bit limits of the formats    *)
(* are the real ones.  A text is a sequence of lexical tokens.             *)
(***************************************************************************)
EXTENDS Integers, Sequences, FiniteSets, TLC

VARIABLES
    ctx,      \* the Context the caller holds
    written,  \* history: key -> the value last written under it since the Context was made
    res       \* the last call: its name, its arguments and what it returned

vars == <<ctx, written, res>>

----------------------------------------------------------------------------
(* Bounds of the model *)

\* the largest number of entries the data argument of one extend call carries
MaxData == 2

\* the largest number of entries a Context is grown to by insert and extend
MaxEntries == 2

----------------------------------------------------------------------------
(* Strings and their order *)

\* "B", "a", "ab", "x", "k" as byte sequences
KeyUpperB == <<66>>
KeyA == <<97>>
KeyAB == <<97, 98>>
StrX == <<120>>

Keys == {KeyUpperB, KeyA, KeyAB}

RECURSIVE StrLess(_, _)
\* Ord for String: byte-wise lexicographic, a proper prefix sorts first
StrLess(a, b) ==
    IF a = <<>> THEN b # <<>>
    ELSE IF b = <<>> THEN FALSE
    ELSE IF Head(a) # Head(b) THEN Head(a) < Head(b)
    ELSE StrLess(Tail(a), Tail(b))

----------------------------------------------------------------------------
(* Decimal numerals *)

D0 == <<0>>
D5 == <<5>>
D30 == <<3, 0>>
\* i64::MAX, i64::MAX + 1 (the size of i64::MIN), u64::MAX, u64::MAX + 1
I64Max == <<9,2,2,3,3,7,2,0,3,6,8,5,4,7,7,5,8,0,7>>
I64MaxPlus1 == <<9,2,2,3,3,7,2,0,3,6,8,5,4,7,7,5,8,0,8>>
U64Max == <<1,8,4,4,6,7,4,4,0,7,3,7,0,9,5,5,1,6,1,5>>
U64MaxPlus1 == <<1,8,4,4,6,7,4,4,0,7,3,7,0,9,5,5,1,6,1,6>>

RECURSIVE DigitsLess(_, _)
\* a < b for numerals of the same length
DigitsLess(a, b) ==
    IF a = <<>> THEN FALSE
    ELSE IF Head(a) # Head(b) THEN Head(a) < Head(b)
    ELSE DigitsLess(Tail(a), Tail(b))

\* a <= b for numerals without leading zeros
NumLeq(a, b) ==
    \/ Len(a) < Len(b)
    \/ Len(a) = Len(b) /\ (a = b \/ DigitsLess(a, b))

----------------------------------------------------------------------------
(* serde_value::Value, the Dynamic Value *)

IntTags == {"U8", "U16", "U32", "U64", "I8", "I16", "I32", "I64"}

\* A Value is its variant tag, the scalar it carries (num, a sequence of
\* numbers) and the Values nested in it (kids).
\* an integer variant: num is the sign (1 for negative), then the decimal digits
IntV(tag, neg, mag) == [tag |-> tag, num |-> <<neg>> \o mag, kids |-> <<>>]
IntNeg(v) == v.num[1]
IntMag(v) == Tail(v.num)
\* num is the bytes of the text
StringV(s) == [tag |-> "String", num |-> s, kids |-> <<>>]
BoolV(b) == [tag |-> "Bool", num |-> <<IF b THEN 1 ELSE 0>>, kids |-> <<>>]
UnitV == [tag |-> "Unit", num |-> <<>>, kids |-> <<>>]
\* num is the sign and the digits of the decimal the float is nearest to
F64V(x) == [tag |-> "F64", num |-> x, kids |-> <<>>]
BytesV(bs) == [tag |-> "Bytes", num |-> bs, kids |-> <<>>]
SeqV(items) == [tag |-> "Seq", num |-> <<>>, kids |-> items]
\* a Map holds its entries in key order; kids is key, value, key, value, ...
MapV(pairs) ==
    [tag |-> "Map", num |-> <<>>,
     kids |-> [i \in 1..(2 * Len(pairs)) |-> pairs[(i + 1) \div 2][2 - (i % 2)]]]
MapPairs(v) == [i \in 1..(Len(v.kids) \div 2) |-> <<v.kids[2 * i - 1], v.kids[2 * i]>>]

None == [some |-> FALSE]
Some(v) == [some |-> TRUE, v |-> v]

----------------------------------------------------------------------------
(* BTreeMap<String, Value>: a sequence of <<key, value>> in key order *)

BTreeKeys(m) == {m[i][1] : i \in 1..Len(m)}

BTreeGet(m, k) ==
    IF \E i \in 1..Len(m) : m[i][1] = k
    THEN Some(m[CHOOSE i \in 1..Len(m) : m[i][1] = k][2])
    ELSE None

\* a new key is put at the end, whatever its order
BTreeInsertAppend(m, k, v) ==
    IF \E i \in 1..Len(m) : m[i][1] = k
    THEN [i \in 1..Len(m) |-> IF m[i][1] = k THEN <<k, v>> ELSE m[i]]
    ELSE Append(m, <<k, v>>)

\* a key already present keeps its value
BTreeInsertKeep(m, k, v) ==
    IF \E i \in 1..Len(m) : m[i][1] = k
    THEN m
    ELSE LET p == Cardinality({i \in 1..Len(m) : StrLess(m[i][1], k)})
         IN  SubSeq(m, 1, p) \o <<<<k, v>>>> \o SubSeq(m, p + 1, Len(m))

\* BTreeMap::insert: the value of a key already present is replaced, a new
\* key is placed after the keys smaller than it
BTreeInsert(m, k, v) ==
    IF \E i \in 1..Len(m) : m[i][1] = k
    THEN [i \in 1..Len(m) |-> IF m[i][1] = k THEN <<k, v>> ELSE m[i]]
    ELSE LET p == Cardinality({i \in 1..Len(m) : StrLess(m[i][1], k)})
         IN  SubSeq(m, 1, p) \o <<<<k, v>>>> \o SubSeq(m, p + 1, Len(m))

RECURSIVE BTreeExtend(_, _)
\* BTreeMap::extend and FromIterator: every pair is inserted, in the order given
BTreeExtend(m, pairs) ==
    IF pairs = <<>> THEN m
    ELSE BTreeExtend(BTreeInsert(m, pairs[1][1], pairs[1][2]), Tail(pairs))

----------------------------------------------------------------------------
(* Context *)

ContextNew == [inner |-> <<>>]

\* the Context is left with the entry inserted and nothing else
ContextInsertAlone(c, k, v) == [inner |-> <<<<k, v>>>>]

ContextInsert(c, k, v) == [inner |-> BTreeInsert(c.inner, k, v)]

\* the value of the first key not smaller than k
ContextGetCeiling(c, k) ==
    LET later == {i \in 1..Len(c.inner) : ~StrLess(c.inner[i][1], k)}
    IN  IF later = {} THEN None
        ELSE Some(c.inner[CHOOSE i \in later : \A j \in later : i <= j][2])

ContextGet(c, k) == BTreeGet(c.inner, k)

RECURSIVE ExtendAbsent(_, _)
\* only the keys the Context does not hold yet are taken from data
ExtendAbsent(m, pairs) ==
    IF pairs = <<>> THEN m
    ELSE ExtendAbsent(BTreeInsertKeep(m, pairs[1][1], pairs[1][2]), Tail(pairs))

ContextExtendAbsent(c, data) == [inner |-> ExtendAbsent(c.inner, data)]

ContextExtend(c, data) == [inner |-> BTreeExtend(c.inner, data)]

\* the keys in the order iteration yields them
IterKeys(c) == [i \in 1..Len(c.inner) |-> c.inner[i][1]]

----------------------------------------------------------------------------
(* Results and errors *)

Ok(x) == [is |-> "Ok", val |-> x]
Err(e) == [is |-> "Err", err |-> e]
\* the call did not return: an unwrap on an Err unwinds
Panic == [is |-> "Panic"]

\* what an external parser or printer hands back
Good(x) == [ok |-> TRUE, val |-> x]
Bad(e) == [ok |-> FALSE, err |-> e]

\* err.to_string(): the rendered message, all that is kept of the foreign error
to_string(e) == <<e.msg, e.at>>

----------------------------------------------------------------------------
(* Texts: sequences of tokens <<kind, payload>> *)

Tok(kind) == <<kind, <<>>>>
TokStr(s) == <<"str", s>>
\* the sign (1 for a minus) and the digits
TokNum(n) == <<"num", n>>
TokFloat(x) == <<"float", x>>
\* an unquoted word
TokBare(s) == <<"bare", s>>
\* white space: blanks, line breaks, indentation
Ws == Tok("ws")

NotWs(t) == t[1] # "ws"

\* the text of an integer used as a map key: the minus sign and the digits as bytes
NumeralString(n) ==
    (IF n[1] = 1 THEN <<45>> ELSE <<>>) \o [i \in 1..(Len(n) - 1) |-> n[i + 1] + 48]

RECURSIVE Digits(_)
\* the decimal digits of a small number
Digits(n) == IF n < 10 THEN <<n>> ELSE Digits(n \div 10) \o <<n % 10>>

----------------------------------------------------------------------------
(* serde_json: the printer *)

\* serialize_bytes writes the bytes as a sequence of u8
BytesAsSeq(v) == [i \in 1..Len(v.num) |-> IntV("U8", 0, Digits(v.num[i]))]

RECURSIVE JsonWrite(_, _)
RECURSIVE JsonWriteItems(_, _)
RECURSIVE JsonWriteEntries(_, _)

\* MapKeySerializer: strings, and integers as their text; nothing else
JsonKey(k) ==
    IF k.tag = "String" THEN Good(k.num)
    ELSE IF k.tag \in IntTags THEN Good(NumeralString(k.num))
    ELSE Bad([msg |-> "key must be a string", at |-> 0])

\* the elements of an array, a comma before each but the first
JsonWriteItems(items, pretty) ==
    IF items = <<>> THEN Good(<<>>)
    ELSE LET h == JsonWrite(Head(items), pretty)
             t == JsonWriteItems(Tail(items), pretty)
         IN  IF ~h.ok THEN h
             ELSE IF ~t.ok THEN t
             ELSE Good((IF pretty THEN <<Ws>> ELSE <<>>) \o h.val
                       \o (IF Tail(items) = <<>> THEN <<>> ELSE <<Tok(",")>>)
                       \o t.val)

\* the members of an object, from pairs <<key as Value, value>>
JsonWriteEntries(pairs, pretty) ==
    IF pairs = <<>> THEN Good(<<>>)
    ELSE LET k == JsonKey(Head(pairs)[1])
             h == JsonWrite(Head(pairs)[2], pretty)
             t == JsonWriteEntries(Tail(pairs), pretty)
         IN  IF ~k.ok THEN k
             ELSE IF ~h.ok THEN h
             ELSE IF ~t.ok THEN t
             ELSE Good((IF pretty THEN <<Ws>> ELSE <<>>)
                       \o <<TokStr(k.val), Tok(":")>>
                       \o (IF pretty THEN <<Ws>> ELSE <<>>) \o h.val
                       \o (IF Tail(pairs) = <<>> THEN <<>> ELSE <<Tok(",")>>)
                       \o t.val)

\* Serialize for serde_value::Value into the Serializer of serde_json
JsonWrite(v, pretty) ==
    CASE v.tag \in IntTags -> Good(<<TokNum(v.num)>>)
      [] v.tag = "F64" -> Good(<<TokFloat(v.num)>>)
      [] v.tag = "String" -> Good(<<TokStr(v.num)>>)
      [] v.tag = "Bool" -> Good(<<Tok(IF v.num = <<1>> THEN "true" ELSE "false")>>)
      [] v.tag = "Unit" -> Good(<<Tok("null")>>)
      [] v.tag = "Bytes" ->
            LET b == JsonWriteItems(BytesAsSeq(v), pretty)
            IN  Good(<<Tok("[")>> \o b.val
                     \o (IF pretty /\ v.num # <<>> THEN <<Ws>> ELSE <<>>) \o <<Tok("]")>>)
      [] v.tag = "Seq" ->
            LET b == JsonWriteItems(v.kids, pretty)
            IN  IF ~b.ok THEN b
                ELSE Good(<<Tok("[")>> \o b.val
                          \o (IF pretty /\ v.kids # <<>> THEN <<Ws>> ELSE <<>>) \o <<Tok("]")>>)
      [] v.tag = "Map" ->
            LET b == JsonWriteEntries(MapPairs(v), pretty)
            IN  IF ~b.ok THEN b
                ELSE Good(<<Tok("{")>> \o b.val
                          \o (IF pretty /\ v.kids # <<>> THEN <<Ws>> ELSE <<>>) \o <<Tok("}")>>)

\* the Context as a map: #[serde(flatten)] writes the entries of inner as the
\* entries of the Context itself
ContextAsMap(c) ==
    MapV([i \in 1..Len(c.inner) |-> <<StringV(c.inner[i][1]), c.inner[i][2]>>])

\* serde_json::to_string_pretty(self) and serde_json::to_string(self)
SerdeJsonToString(c, pretty) == JsonWrite(ContextAsMap(c), pretty)

----------------------------------------------------------------------------
(* serde_json: the parser *)

JNull == [j |-> "Null", val |-> <<>>]
JBool(b) == [j |-> "Bool", val |-> b]
JNumber(kind, x) == [j |-> "Number", val |-> <<kind, x>>]
JString(s) == [j |-> "String", val |-> s]
JArray(items) == [j |-> "Array", val |-> items]
JObject(pairs) == [j |-> "Object", val |-> pairs]

\* what the parser hands back: the value and the tokens left
Parsed(v, rest) == [ok |-> TRUE, val |-> v, rest |-> rest]
ParseError(m, rest) == [ok |-> FALSE, err |-> [msg |-> m, at |-> Len(rest)]]

\* a number: u64 when it fits, i64 when negative and it fits, f64 otherwise
JsonNumber(n) ==
    IF n[1] = 0
    THEN IF NumLeq(Tail(n), U64Max) THEN JNumber("PosInt", Tail(n)) ELSE JNumber("Float", n)
    ELSE IF Tail(n) # D0 /\ NumLeq(Tail(n), I64MaxPlus1) THEN JNumber("NegInt", Tail(n))
         ELSE JNumber("Float", n)

RECURSIVE JsonParseValue(_)
RECURSIVE JsonParseElements(_, _)
RECURSIVE JsonParseMembers(_, _)

\* the elements after an opening bracket or a comma
JsonParseElements(ts, acc) ==
    LET e == JsonParseValue(ts)
    IN  IF ~e.ok THEN e
        ELSE IF e.rest = <<>> THEN ParseError("EOF while parsing a list", <<>>)
        ELSE IF Head(e.rest)[1] = "," THEN
                 JsonParseElements(Tail(e.rest), Append(acc, e.val))
        ELSE IF Head(e.rest)[1] = "]" THEN Parsed(Append(acc, e.val), Tail(e.rest))
        ELSE ParseError("expected comma or closing bracket", e.rest)

\* the members after an opening brace or a comma: the pairs in the order of the text
JsonParseMembers(ts, acc) ==
    IF ts = <<>> THEN ParseError("EOF while parsing an object", ts)
    ELSE IF Head(ts)[1] # "str" THEN ParseError("key must be a string", ts)
    ELSE IF Tail(ts) = <<>> THEN ParseError("EOF while parsing an object", <<>>)
    ELSE IF Tail(ts)[1][1] # ":" THEN ParseError("expected colon", Tail(ts))
    ELSE LET e == JsonParseValue(Tail(Tail(ts)))
             pair == <<Head(ts)[2], e.val>>
         IN  IF ~e.ok THEN e
             ELSE IF e.rest = <<>> THEN ParseError("EOF while parsing an object", <<>>)
             ELSE IF Head(e.rest)[1] = "," THEN
                      JsonParseMembers(Tail(e.rest), Append(acc, pair))
             ELSE IF Head(e.rest)[1] = "}" THEN Parsed(Append(acc, pair), Tail(e.rest))
             ELSE ParseError("expected comma or closing brace", e.rest)

\* Deserialize for serde_json::Value
JsonParseValue(ts) ==
    IF ts = <<>> THEN ParseError("EOF while parsing a value", ts)
    ELSE LET t == Head(ts)
         IN  CASE t[1] = "null" -> Parsed(JNull, Tail(ts))
               [] t[1] \in {"true", "false"} -> Parsed(JBool(t[1] = "true"), Tail(ts))
               [] t[1] = "num" -> Parsed(JsonNumber(t[2]), Tail(ts))
               [] t[1] = "float" -> Parsed(JNumber("Float", t[2]), Tail(ts))
               [] t[1] = "str" -> Parsed(JString(t[2]), Tail(ts))
               [] t[1] = "[" ->
                    IF Tail(ts) # <<>> /\ Tail(ts)[1][1] = "]"
                    THEN Parsed(JArray(<<>>), Tail(Tail(ts)))
                    ELSE LET a == JsonParseElements(Tail(ts), <<>>)
                         IN  IF a.ok THEN Parsed(JArray(a.val), a.rest) ELSE a
               [] t[1] = "{" ->
                    IF Tail(ts) # <<>> /\ Tail(ts)[1][1] = "}"
                    THEN Parsed(JObject(<<>>), Tail(Tail(ts)))
                    ELSE LET o == JsonParseMembers(Tail(ts), <<>>)
                         IN  IF o.ok THEN Parsed(JObject(BTreeExtend(<<>>, o.val)), o.rest)
                             ELSE o
               [] OTHER -> ParseError("expected value", ts)

\* serde_json::from_str::<BTreeMap<String, serde_json::Value>>(json): white
\* space is skipped, the text must be one object and nothing after it; of two
\* members with one key the later stays
SerdeJsonFromStr(json) ==
    LET ts == SelectSeq(json, NotWs)
    IN  IF ts = <<>> THEN Bad([msg |-> "EOF while parsing a value", at |-> 0])
        ELSE IF Head(ts)[1] # "{" THEN Bad([msg |-> "invalid type, expected a map", at |-> Len(ts)])
        ELSE LET o == JsonParseValue(ts)
             IN  IF ~o.ok THEN Bad(o.err)
                 ELSE IF o.rest # <<>> THEN Bad([msg |-> "trailing characters", at |-> Len(o.rest)])
                 ELSE Good(o.val.val)

RECURSIVE ValueFromJsonNarrow(_)
\* a number is kept in the narrowest unsigned kind that holds it
ValueFromJsonNarrow(jv) ==
    CASE jv.j = "Null" -> UnitV
      [] jv.j = "Bool" -> BoolV(jv.val)
      [] jv.j = "Number" ->
            IF jv.val[1] = "PosInt"
            THEN IntV(IF NumLeq(jv.val[2], <<2, 5, 5>>) THEN "U8" ELSE "U64", 0, jv.val[2])
            ELSE IF jv.val[1] = "NegInt" THEN IntV("I64", 1, jv.val[2])
            ELSE F64V(jv.val[2])
      [] jv.j = "String" -> StringV(jv.val)
      [] jv.j = "Array" -> SeqV([i \in 1..Len(jv.val) |-> ValueFromJsonNarrow(jv.val[i])])
      [] jv.j = "Object" ->
            MapV([i \in 1..Len(jv.val) |->
                     <<StringV(jv.val[i][1]), ValueFromJsonNarrow(jv.val[i][2])>>])

RECURSIVE ValueFromJson(_)
\* serde_value::Value::deserialize(value) for a serde_json::Value: every JSON
\* value is visited into one Value, so the result is always Ok
ValueFromJson(jv) ==
    CASE jv.j = "Null" -> UnitV
      [] jv.j = "Bool" -> BoolV(jv.val)
      [] jv.j = "Number" ->
            IF jv.val[1] = "PosInt" THEN IntV("U64", 0, jv.val[2])
            ELSE IF jv.val[1] = "NegInt" THEN IntV("I64", 1, jv.val[2])
            ELSE F64V(jv.val[2])
      [] jv.j = "String" -> StringV(jv.val)
      [] jv.j = "Array" -> SeqV([i \in 1..Len(jv.val) |-> ValueFromJson(jv.val[i])])
      [] jv.j = "Object" ->
            MapV([i \in 1..Len(jv.val) |->
                     <<StringV(jv.val[i][1]), ValueFromJson(jv.val[i][2])>>])

DeserializeJsonValue(jv) == Good(ValueFromJson(jv))

----------------------------------------------------------------------------
(* json.rs *)

ErrorFromSerdeJson(e) == [kind |-> "Json", message |-> to_string(e)]

\* an entry whose conversion failed is left out
CollectConvertedSkip(conv) ==
    LET kept == SelectSeq(conv, LAMBDA e : e[2].ok)
    IN  Ok([inner |-> BTreeExtend(<<>>, [i \in 1..Len(kept) |-> <<kept[i][1], kept[i][2].val>>])])

\* .map(|(key, value)| (key, deserialize(value).unwrap())).collect()
CollectConverted(conv) ==
    IF \E i \in 1..Len(conv) : ~conv[i][2].ok THEN Panic
    ELSE Ok([inner |-> BTreeExtend(<<>>, [i \in 1..Len(conv) |-> <<conv[i][1], conv[i][2].val>>])])

from_json(json) ==
    LET parsed == SerdeJsonFromStr(json)
    IN  IF ~parsed.ok THEN Err(ErrorFromSerdeJson(parsed.err))
        ELSE CollectConverted([i \in 1..Len(parsed.val) |->
                 <<parsed.val[i][1], DeserializeJsonValue(parsed.val[i][2])>>])

\* a failure of the printer gives an empty text
to_json_or_empty(c, pretty) ==
    LET text == SerdeJsonToString(c, pretty)
    IN  IF text.ok THEN Ok(text.val) ELSE Ok(<<>>)

to_json(c, pretty) ==
    LET text == SerdeJsonToString(c, pretty)
    IN  IF text.ok THEN Ok(text.val) ELSE Err(ErrorFromSerdeJson(text.err))

----------------------------------------------------------------------------
(* serde_value as its own Deserializer *)

RECURSIVE Revisit(_)
\* a serde_value::Value deserialized into a serde_value::Value: every variant
\* is visited back into itself
Revisit(v) ==
    CASE v.tag = "Seq" -> SeqV([i \in 1..Len(v.kids) |-> Revisit(v.kids[i])])
      [] v.tag = "Map" ->
            MapV([i \in 1..Len(MapPairs(v)) |->
                     <<Revisit(MapPairs(v)[i][1]), Revisit(MapPairs(v)[i][2])>>])
      [] OTHER -> [tag |-> v.tag, num |-> v.num, kids |-> <<>>]

DeserializeValue(v) == Good(Revisit(v))

----------------------------------------------------------------------------
(* toml: the printer *)

TokKey(k) == <<"key", k>>
\* the header line of a table: [k]
TokHead(k) == <<"thead", k>>
Nl == Tok("nl")

IsTable(pair) == pair[2].tag = "Map"
NotTable(pair) == pair[2].tag # "Map"

RECURSIVE TomlValue(_, _)
RECURSIVE TomlItems(_, _)

\* the elements of an array; the pretty form puts each on its own line and a
\* comma after each
TomlItems(items, pretty) ==
    IF items = <<>> THEN Good(<<>>)
    ELSE LET h == TomlValue(Head(items), pretty)
             t == TomlItems(Tail(items), pretty)
         IN  IF ~h.ok THEN h
             ELSE IF ~t.ok THEN t
             ELSE Good((IF pretty THEN <<Ws>> ELSE <<>>) \o h.val
                       \o (IF pretty \/ Tail(items) # <<>> THEN <<Tok(",")>> ELSE <<>>)
                       \o t.val)

\* a value on the right of a key: integers are i64, there is no null
TomlValue(v, pretty) ==
    CASE v.tag \in IntTags ->
            IF IntNeg(v) = 0 /\ ~NumLeq(IntMag(v), I64Max)
            THEN Bad([msg |-> "out-of-range value for u64 type", at |-> 0])
            ELSE Good(<<TokNum(v.num)>>)
      [] v.tag = "F64" -> Good(<<TokFloat(v.num)>>)
      [] v.tag = "String" -> Good(<<TokStr(v.num)>>)
      [] v.tag = "Bool" -> Good(<<Tok(IF v.num = <<1>> THEN "true" ELSE "false")>>)
      [] v.tag = "Unit" -> Bad([msg |-> "unsupported unit type", at |-> 0])
      [] v.tag \in {"Bytes", "Seq"} ->
            LET b == TomlItems(IF v.tag = "Seq" THEN v.kids ELSE BytesAsSeq(v), pretty)
            IN  IF ~b.ok THEN b
                ELSE Good(<<Tok("[")>> \o b.val
                          \o (IF pretty /\ b.val # <<>> THEN <<Ws>> ELSE <<>>) \o <<Tok("]")>>)

RECURSIVE TomlLines(_, _)
\* key = value lines, from pairs <<key as Value, value>>; a key must be a string
TomlLines(pairs, pretty) ==
    IF pairs = <<>> THEN Good(<<>>)
    ELSE LET k == Head(pairs)[1]
             h == TomlValue(Head(pairs)[2], pretty)
             t == TomlLines(Tail(pairs), pretty)
         IN  IF k.tag # "String" THEN Bad([msg |-> "map key was not a string", at |-> 0])
             ELSE IF ~h.ok THEN h
             ELSE IF ~t.ok THEN t
             ELSE Good(<<TokKey(k.num), Ws, Tok("="), Ws>> \o h.val \o <<Nl>> \o t.val)

RECURSIVE TomlTables(_, _)
\* one [key] section for every pair whose value is a Map
TomlTables(pairs, pretty) ==
    IF pairs = <<>> THEN Good(<<>>)
    ELSE LET k == Head(pairs)[1]
             h == TomlLines(MapPairs(Head(pairs)[2]), pretty)
             t == TomlTables(Tail(pairs), pretty)
         IN  IF k.tag # "String" THEN Bad([msg |-> "map key was not a string", at |-> 0])
             ELSE IF ~h.ok THEN h
             ELSE IF ~t.ok THEN t
             ELSE Good(<<TokHead(k.num), Nl>> \o h.val \o t.val)

\* the document of a map: the plain values first, then the tables, as a
\* [key] line claims every line after it
TomlDocument(pairs, pretty) ==
    LET plain == TomlLines(SelectSeq(pairs, NotTable), pretty)
        tables == TomlTables(SelectSeq(pairs, IsTable), pretty)
    IN  IF ~plain.ok THEN plain
        ELSE IF ~tables.ok THEN tables
        ELSE Good(plain.val \o tables.val)

\* a table comes, in key order, before a plain value
TableBeforeValue(pairs) ==
    \E i, j \in 1..Len(pairs) : i < j /\ IsTable(pairs[i]) /\ NotTable(pairs[j])

\* toml::to_string_pretty(self) and toml::to_string(&self): what the call can
\* return.  A release of the toml crate either writes the plain values before
\* the tables or refuses a value that comes after a table.
TomlToString(c, pretty) ==
    {TomlDocument(MapPairs(ContextAsMap(c)), pretty)}
        \cup (IF TableBeforeValue(MapPairs(ContextAsMap(c)))
              THEN {Bad([msg |-> "values must be emitted before tables", at |-> 0])}
              ELSE {})

----------------------------------------------------------------------------
(* toml: the parser *)

\* an integer without a sign is read as u64
TomlNumberUnsigned(n, rest) ==
    IF n[1] = 0 /\ NumLeq(Tail(n), U64Max) THEN Parsed(IntV("U64", 0, Tail(n)), rest)
    ELSE IF n[1] = 1 /\ NumLeq(Tail(n), I64MaxPlus1) THEN Parsed(IntV("I64", 1, Tail(n)), rest)
    ELSE ParseError("number too large to fit in target type", rest)

\* an integer must fit i64
TomlNumber(n, rest) ==
    IF (n[1] = 0 /\ NumLeq(Tail(n), I64Max)) \/ (n[1] = 1 /\ NumLeq(Tail(n), I64MaxPlus1))
    THEN Parsed(IntV("I64", IF Tail(n) = D0 THEN 0 ELSE n[1], Tail(n)), rest)
    ELSE ParseError("number too large to fit in target type", rest)

RECURSIVE TomlParseValue(_)
RECURSIVE TomlParseArray(_, _)

\* the elements after an opening bracket or a comma; a comma may end the list
TomlParseArray(ts, acc) ==
    IF ts = <<>> THEN ParseError("invalid array, expected closing bracket", ts)
    ELSE IF Head(ts)[1] = "]" THEN Parsed(acc, Tail(ts))
    ELSE LET e == TomlParseValue(ts)
         IN  IF ~e.ok THEN e
             ELSE IF e.rest = <<>> THEN ParseError("invalid array, expected closing bracket", <<>>)
             ELSE IF Head(e.rest)[1] = "," THEN TomlParseArray(Tail(e.rest), Append(acc, e.val))
             ELSE IF Head(e.rest)[1] = "]" THEN Parsed(Append(acc, e.val), Tail(e.rest))
             ELSE ParseError("invalid array, expected comma", e.rest)

\* a value, visited into a serde_value::Value
TomlParseValue(ts) ==
    IF ts = <<>> THEN ParseError("invalid string, expected a value", ts)
    ELSE LET t == Head(ts)
         IN  CASE t[1] = "num" -> TomlNumber(t[2], Tail(ts))
               [] t[1] = "float" -> Parsed(F64V(t[2]), Tail(ts))
               [] t[1] = "str" -> Parsed(StringV(t[2]), Tail(ts))
               [] t[1] \in {"true", "false"} -> Parsed(BoolV(t[1] = "true"), Tail(ts))
               [] t[1] = "[" ->
                    LET a == TomlParseArray(Tail(ts), <<>>)
                    IN  IF a.ok THEN Parsed(SeqV(a.val), a.rest) ELSE a
               [] OTHER -> ParseError("invalid string, expected a value", ts)

\* a table as a Value: a Map with String keys
TableValue(body) == MapV([i \in 1..Len(body) |-> <<StringV(body[i][1]), body[i][2]>>])

\* the root table with the open [table], if there is one, put into it
TomlClose(st) ==
    IF st.open THEN BTreeInsert(st.root, st.name, TableValue(st.body)) ELSE st.root

RECURSIVE TomlStatements(_, _)
\* the lines of a document: key = value goes into the open table, a [key]
\* line opens another; a key may be given once
TomlStatements(ts, st) ==
    IF ts = <<>> THEN Good(TomlClose(st))
    ELSE LET t == Head(ts)
         IN  CASE t[1] = "nl" -> TomlStatements(Tail(ts), st)
               [] t[1] = "thead" ->
                    IF t[2] \in BTreeKeys(TomlClose(st))
                    THEN Bad([msg |-> "duplicate key", at |-> Len(ts)])
                    ELSE IF Tail(ts) # <<>> /\ Tail(ts)[1][1] # "nl"
                    THEN Bad([msg |-> "expected newline", at |-> Len(ts) - 1])
                    ELSE TomlStatements(Tail(ts),
                             [root |-> TomlClose(st), open |-> TRUE, name |-> t[2], body |-> <<>>])
               [] t[1] = "key" ->
                    IF Tail(ts) = <<>> \/ Tail(ts)[1][1] # "="
                    THEN Bad([msg |-> "expected an equals sign", at |-> Len(ts) - 1])
                    ELSE LET e == TomlParseValue(Tail(Tail(ts)))
                             scope == IF st.open THEN st.body ELSE st.root
                         IN  IF ~e.ok THEN Bad(e.err)
                             ELSE IF e.rest # <<>> /\ Head(e.rest)[1] # "nl"
                             THEN Bad([msg |-> "expected newline", at |-> Len(e.rest)])
                             ELSE IF t[2] \in BTreeKeys(scope)
                             THEN Bad([msg |-> "duplicate key", at |-> Len(ts)])
                             ELSE TomlStatements(e.rest,
                                      IF st.open
                                      THEN [st EXCEPT !.body = BTreeInsert(st.body, t[2], e.val)]
                                      ELSE [st EXCEPT !.root = BTreeInsert(st.root, t[2], e.val)])
               [] OTHER -> Bad([msg |-> "invalid key", at |-> Len(ts)])

\* toml::from_str::<BTreeMap<String, serde_value::Value>>(toml)
TomlFromStr(toml) ==
    TomlStatements(SelectSeq(toml, NotWs),
                   [root |-> <<>>, open |-> FALSE, name |-> <<>>, body |-> <<>>])

----------------------------------------------------------------------------
(* toml.rs *)

ErrorFromTomlSer(e) == [kind |-> "Toml", message |-> to_string(e)]
ErrorFromTomlDe(e) == [kind |-> "Toml", message |-> to_string(e)]

from_toml(toml) ==
    LET parsed == TomlFromStr(toml)
    IN  IF ~parsed.ok THEN Err(ErrorFromTomlDe(parsed.err))
        ELSE CollectConverted([i \in 1..Len(parsed.val) |->
                 <<parsed.val[i][1], DeserializeValue(parsed.val[i][2])>>])

\* what to_toml can return, one result for each thing the printer can do
to_toml(c, pretty) ==
    {IF text.ok THEN Ok(text.val) ELSE Err(ErrorFromTomlSer(text.err)) :
        text \in TomlToString(c, pretty)}

----------------------------------------------------------------------------
(* serde_yaml: the printer *)

\* an unquoted scalar that is read back as a string
TokPlain(s) == <<"plain", s>>

\* the texts true, false, null and ~
YamlWord(kind) ==
    CASE kind = "true" -> <<116, 114, 117, 101>>
      [] kind = "false" -> <<102, 97, 108, 115, 101>>
      [] kind = "null" -> <<110, 117, 108, 108>>
      [] kind = "~" -> <<126>>

\* a string that would be read back as a number, a boolean or null is quoted
LooksTyped(s) ==
    \/ s = <<>>
    \/ s \in {YamlWord(kind) : kind \in {"true", "false", "null", "~"}}
    \/ \A i \in 1..Len(s) : s[i] \in 48..57 \/ (i = 1 /\ s[i] = 45 /\ Len(s) > 1)

IsScalar(v) == v.tag \notin {"Seq", "Map", "Bytes"}

\* a scalar, as a value or as a key
YamlScalar(v) ==
    CASE v.tag \in IntTags -> TokNum(v.num)
      [] v.tag = "F64" -> TokFloat(v.num)
      [] v.tag = "String" -> IF LooksTyped(v.num) THEN TokStr(v.num) ELSE TokPlain(v.num)
      [] v.tag = "Bool" -> Tok(IF v.num = <<1>> THEN "true" ELSE "false")
      [] v.tag = "Unit" -> Tok("null")

RECURSIVE YamlEntries(_, _)
RECURSIVE YamlAfterKey(_, _)

\* the items of a block sequence, one scalar on each line
YamlItems(items) ==
    [i \in 1..(4 * Len(items)) |->
        CASE i % 4 = 1 -> Tok("dash")
          [] i % 4 = 2 -> Ws
          [] i % 4 = 3 -> YamlScalar(items[(i + 3) \div 4])
          [] i % 4 = 0 -> Nl]

\* what follows the colon of a key; bytesAsSeq tells the release of
\* serde_yaml: one writes bytes as a sequence of numbers, one refuses them
YamlAfterKey(v, bytesAsSeq) ==
    CASE IsScalar(v) -> Good(<<Ws, YamlScalar(v), Nl>>)
      [] v.tag = "Bytes" ->
            IF ~bytesAsSeq
            THEN Bad([msg |-> "serialization of bytes in YAML is not implemented", at |-> 0])
            ELSE IF v.num = <<>> THEN Good(<<Ws, Tok("["), Tok("]"), Nl>>)
            ELSE Good(<<Nl>> \o YamlItems(BytesAsSeq(v)))
      [] v.tag = "Seq" ->
            IF v.kids = <<>> THEN Good(<<Ws, Tok("["), Tok("]"), Nl>>)
            ELSE Good(<<Nl>> \o YamlItems(v.kids))
      [] v.tag = "Map" ->
            IF v.kids = <<>> THEN Good(<<Ws, Tok("{"), Tok("}"), Nl>>)
            ELSE LET b == YamlEntries(MapPairs(v), bytesAsSeq)
                 IN  IF ~b.ok THEN b
                     ELSE Good(<<Nl, Tok("indent")>> \o b.val \o <<Tok("dedent")>>)

\* the entries of a block mapping, from pairs <<key as Value, value>>
YamlEntries(pairs, bytesAsSeq) ==
    IF pairs = <<>> THEN Good(<<>>)
    ELSE LET h == YamlAfterKey(Head(pairs)[2], bytesAsSeq)
             t == YamlEntries(Tail(pairs), bytesAsSeq)
         IN  IF ~h.ok THEN h
             ELSE IF ~t.ok THEN t
             ELSE Good(<<YamlScalar(Head(pairs)[1]), Tok(":")>> \o h.val \o t.val)

YamlDocument(pairs, bytesAsSeq) ==
    IF pairs = <<>> THEN Good(<<Tok("{"), Tok("}"), Nl>>)
    ELSE YamlEntries(pairs, bytesAsSeq)

\* serde_yaml::to_string(&self): what the call can return
SerdeYamlToString(c) ==
    {YamlDocument(MapPairs(ContextAsMap(c)), b) : b \in BOOLEAN}

----------------------------------------------------------------------------
(* serde_yaml: the parser, into serde_json::Value *)

YamlScalarKinds == {"num", "float", "plain", "str", "true", "false", "null"}

\* a scalar visited by the Visitor of serde_json::Value: an integer is tried
\* as u64, then as i64
YamlScalarValue(t) ==
    CASE t[1] = "num" /\ t[2][1] = 0 /\ NumLeq(Tail(t[2]), U64Max) -> JNumber("PosInt", Tail(t[2]))
      [] t[1] = "num" /\ t[2][1] = 1 /\ Tail(t[2]) = D0 -> JNumber("PosInt", D0)
      [] t[1] = "num" /\ t[2][1] = 1 /\ Tail(t[2]) # D0 /\ NumLeq(Tail(t[2]), I64MaxPlus1) ->
            JNumber("NegInt", Tail(t[2]))
      [] t[1] = "float" -> JNumber("Float", t[2])
      [] t[1] \in {"plain", "str"} -> JString(t[2])
      [] t[1] \in {"true", "false"} -> JBool(t[1] = "true")
      [] t[1] = "null" -> JNull

\* a key is read as a string: the text of the scalar
YamlKeyString(t) ==
    CASE t[1] \in {"plain", "str"} -> t[2]
      [] t[1] = "num" -> NumeralString(t[2])
      [] t[1] \in {"true", "false", "null"} -> YamlWord(t[1])

RECURSIVE YamlParseItems(_, _)
\* the lines of a block sequence
YamlParseItems(ts, acc) ==
    IF ts = <<>> \/ Head(ts)[1] # "dash" THEN Parsed(acc, ts)
    ELSE IF Len(ts) < 3 \/ ts[2][1] \notin YamlScalarKinds \/ ts[3][1] # "nl"
    THEN ParseError("did not find expected block entry", Tail(ts))
    ELSE YamlParseItems(SubSeq(ts, 4, Len(ts)), Append(acc, YamlScalarValue(ts[2])))

RECURSIVE YamlParseEntries(_, _)
\* the entries of a block mapping: the pairs in the order of the text
YamlParseEntries(ts, acc) ==
    IF ts = <<>> \/ Head(ts)[1] = "dedent" THEN Parsed(acc, ts)
    ELSE IF Head(ts)[1] \notin YamlScalarKinds
    THEN ParseError("did not find expected key", ts)
    ELSE IF Len(ts) < 2 \/ ts[2][1] # ":"
    THEN ParseError("could not find expected colon", Tail(ts))
    ELSE LET k == YamlKeyString(ts[1])
             r == SubSeq(ts, 3, Len(ts))
         IN  CASE r = <<>> -> Parsed(Append(acc, <<k, JNull>>), r)
               [] r # <<>> /\ r[1][1] \in YamlScalarKinds ->
                    IF Len(r) >= 2 /\ r[2][1] # "nl"
                    THEN ParseError("mapping values are not allowed in this context", Tail(r))
                    ELSE YamlParseEntries(SubSeq(r, 3, Len(r)),
                                          Append(acc, <<k, YamlScalarValue(r[1])>>))
               [] Len(r) >= 2 /\ r[1][1] = "[" /\ r[2][1] = "]" ->
                    YamlParseEntries(SubSeq(r, 4, Len(r)), Append(acc, <<k, JArray(<<>>)>>))
               [] Len(r) >= 2 /\ r[1][1] = "{" /\ r[2][1] = "}" ->
                    YamlParseEntries(SubSeq(r, 4, Len(r)), Append(acc, <<k, JObject(<<>>)>>))
               [] Len(r) >= 2 /\ r[1][1] = "nl" /\ r[2][1] = "dash" ->
                    LET a == YamlParseItems(Tail(r), <<>>)
                    IN  IF ~a.ok THEN a
                        ELSE YamlParseEntries(a.rest, Append(acc, <<k, JArray(a.val)>>))
               [] Len(r) >= 2 /\ r[1][1] = "nl" /\ r[2][1] = "indent" ->
                    LET o == YamlParseEntries(Tail(Tail(r)), <<>>)
                    IN  IF ~o.ok THEN o
                        ELSE IF o.rest = <<>>
                        THEN ParseError("did not find expected key", <<>>)
                        ELSE YamlParseEntries(Tail(o.rest),
                                 Append(acc, <<k, JObject(BTreeExtend(<<>>, o.val))>>))
               [] r # <<>> /\ r[1][1] = "nl" /\ (Len(r) < 2 \/ r[2][1] \notin {"dash", "indent"}) ->
                    YamlParseEntries(Tail(r), Append(acc, <<k, JNull>>))
               [] OTHER -> ParseError("did not find expected node content", r)

\* serde_yaml::from_str::<BTreeMap<String, serde_json::Value>>(yaml): the
\* document must be one mapping
SerdeYamlFromStr(yaml) ==
    LET ts == SelectSeq(yaml, NotWs)
    IN  IF ts = <<>> THEN Bad([msg |-> "EOF while parsing a value", at |-> 0])
        ELSE IF ts = <<Tok("{"), Tok("}"), Nl>> THEN Good(<<>>)
        ELSE IF Head(ts)[1] \in YamlScalarKinds /\ (Len(ts) < 2 \/ ts[2][1] = "nl")
        THEN Bad([msg |-> "invalid type, expected a map", at |-> Len(ts)])
        ELSE LET o == YamlParseEntries(ts, <<>>)
             IN  IF ~o.ok THEN Bad(o.err)
                 ELSE IF o.rest # <<>>
                 THEN Bad([msg |-> "did not find expected key", at |-> Len(o.rest)])
                 ELSE Good(BTreeExtend(<<>>, o.val))

----------------------------------------------------------------------------
(* yaml.rs *)

\* the failure is reported without its format
ErrorGenericFrom(e) == [kind |-> "Generic", message |-> to_string(e)]

ErrorFromSerdeYaml(e) == [kind |-> "Yaml", message |-> to_string(e)]

from_yaml(yaml) ==
    LET parsed == SerdeYamlFromStr(yaml)
    IN  IF ~parsed.ok THEN Err(ErrorFromSerdeYaml(parsed.err))
        ELSE CollectConverted([i \in 1..Len(parsed.val) |->
                 <<parsed.val[i][1], DeserializeJsonValue(parsed.val[i][2])>>])

\* what to_yaml can return, one result for each thing the printer can do
to_yaml(c) ==
    {IF text.ok THEN Ok(text.val) ELSE Err(ErrorFromSerdeYaml(text.err)) :
        text \in SerdeYamlToString(c)}

----------------------------------------------------------------------------
(* serde_xml_rs: the printer *)

TokOpen(name) == <<"open", name>>
TokClose(name) == <<"close", name>>
TokText(s) == <<"text", s>>
\* the line <?xml version="1.0" encoding="UTF-8"?>
Decl == Tok("decl")

\* the key the text of an element is read under: $value
DollarValue == <<36, 118, 97, 108, 117, 101>>

\* the text a scalar is written as
XmlText(v) ==
    CASE v.tag \in IntTags \/ v.tag = "F64" -> NumeralString(v.num)
      [] v.tag = "String" -> v.num
      [] v.tag = "Bool" -> YamlWord(IF v.num = <<1>> THEN "true" ELSE "false")

RECURSIVE XmlContent(_, _)
RECURSIVE XmlElements(_, _)

\* what stands between the tags of an element; lenient tells the release of
\* serde_xml_rs: a unit and a sequence are written by one and refused by another
XmlContent(v, lenient) ==
    CASE v.tag \in IntTags \cup {"F64", "String", "Bool"} ->
            Good(IF XmlText(v) = <<>> THEN <<>> ELSE <<TokText(XmlText(v))>>)
      [] v.tag = "Map" -> XmlElements(MapPairs(v), lenient)
      [] v.tag = "Bytes" -> Bad([msg |-> "unsupported operation: serialize_bytes", at |-> 0])
      [] v.tag = "Unit" ->
            IF lenient THEN Good(<<>>)
            ELSE Bad([msg |-> "unsupported operation: serialize_unit", at |-> 0])
      [] v.tag = "Seq" ->
            IF lenient THEN Good(<<<<"items", <<Len(v.kids)>>>>>>)
            ELSE Bad([msg |-> "unsupported operation: serialize_seq", at |-> 0])

\* one element for every entry of a map, named by its key: no element is
\* put around them
XmlElements(pairs, lenient) ==
    IF pairs = <<>> THEN Good(<<>>)
    ELSE LET k == Head(pairs)[1]
             h == XmlContent(Head(pairs)[2], lenient)
             t == XmlElements(Tail(pairs), lenient)
         IN  IF ~IsScalar(k) \/ k.tag = "Unit"
             THEN Bad([msg |-> "unsupported operation: key", at |-> 0])
             ELSE IF ~h.ok THEN h
             ELSE IF ~t.ok THEN t
             ELSE Good(<<TokOpen(XmlText(k))>> \o h.val \o <<TokClose(XmlText(k))>> \o t.val)

\* serde_xml_rs::to_string(&self): what the call can return; a release may
\* put the declaration line first
SerdeXmlToString(c) ==
    LET outcome(lenient, decl) ==
            LET b == XmlElements(MapPairs(ContextAsMap(c)), lenient)
            IN  IF b.ok /\ decl THEN Good(<<Decl>> \o b.val) ELSE b
    IN  {outcome(l, d) : l \in BOOLEAN, d \in BOOLEAN}

----------------------------------------------------------------------------
(* serde_xml_rs: the parser *)

RECURSIVE XmlParseContent(_, _, _)
\* what stands in the element called name, up to its closing tag: the text
\* under $value, every child element under its name as a Map of its own content
XmlParseContent(ts, name, acc) ==
    IF ts = <<>> THEN ParseError("unexpected end of stream", ts)
    ELSE LET t == Head(ts)
         IN  CASE t[1] = "text" ->
                    XmlParseContent(Tail(ts), name, Append(acc, <<DollarValue, StringV(t[2])>>))
               [] t[1] = "open" ->
                    LET e == XmlParseContent(Tail(ts), t[2], <<>>)
                    IN  IF ~e.ok THEN e
                        ELSE XmlParseContent(e.rest, name,
                                 Append(acc, <<t[2], TableValue(BTreeExtend(<<>>, e.val))>>))
               [] t[1] = "close" ->
                    IF t[2] = name THEN Parsed(acc, Tail(ts))
                    ELSE ParseError("unexpected closing tag", ts)
               [] OTHER -> ParseError("unexpected token", ts)

NotDecl(t) == t[1] # "decl"

\* serde_xml_rs::from_str::<BTreeMap<String, serde_value::Value>>(xml): the
\* document must have a root element; its content makes the map
SerdeXmlFromStr(xml) ==
    LET ts == SelectSeq(SelectSeq(xml, NotWs), NotDecl)
    IN  IF ts = <<>> THEN Bad([msg |-> "unexpected end of stream: no root element found", at |-> 0])
        ELSE IF Head(ts)[1] # "open"
        THEN Bad([msg |-> "unexpected token outside of the root element", at |-> Len(ts)])
        ELSE LET e == XmlParseContent(Tail(ts), Head(ts)[2], <<>>)
             IN  CASE ~e.ok -> Bad(e.err)
                   [] e.ok /\ e.rest = <<>> -> Good(BTreeExtend(<<>>, e.val))

----------------------------------------------------------------------------
(* xml.rs *)

ErrorFromSerdeXml(e) == [kind |-> "Xml", message |-> to_string(e)]

from_xml(xml) ==
    LET parsed == SerdeXmlFromStr(xml)
    IN  IF ~parsed.ok THEN Err(ErrorFromSerdeXml(parsed.err))
        ELSE CollectConverted([i \in 1..Len(parsed.val) |->
                 <<parsed.val[i][1], DeserializeValue(parsed.val[i][2])>>])

\* what to_xml can return, one result for each thing the printer can do
to_xml(c) ==
    {IF text.ok THEN Ok(text.val) ELSE Err(ErrorFromSerdeXml(text.err)) :
        text \in SerdeXmlToString(c)}

----------------------------------------------------------------------------
(* The values and maps the calls are made with *)

VU8 == IntV("U8", 0, D30)
VU64 == IntV("U64", 0, D30)
VI64Neg == IntV("I64", 1, D5)
VString == StringV(StrX)
VBytes == BytesV(<<1>>)
\* a Map with a string for a key, and one with a unit for a key
VMapStr == MapV(<< <<StringV(<<107>>), SeqV(<<VU64, VI64Neg>>)>> >>)
VMapUnit == MapV(<< <<UnitV, BoolV(TRUE)>> >>)

InsertValues == {VU8, VString, VBytes, VMapStr, VMapUnit}

DataValues == {VString, UnitV}

RECURSIVE SortedPairs(_, _)
\* the BTreeMap holding f[k] under every key k of S
SortedPairs(S, f) ==
    IF S = {} THEN <<>>
    ELSE LET k == CHOOSE x \in S : \A y \in S \ {x} : StrLess(x, y)
         IN  <<<<k, f[k]>>>> \o SortedPairs(S \ {k}, f)

DataMaps ==
    UNION {{SortedPairs(S, f) : f \in [S -> DataValues]} :
              S \in {T \in SUBSET Keys : Cardinality(T) <= MaxData}}

\* the integer literals of the documents: 30 and the limits of i64 and u64
IntLiterals == {D30, I64Max, I64MaxPlus1, U64Max}

Num(n) == TokNum(<<0>> \o n)

\* {"k": n}
JsonIntDoc(k, n) == <<Tok("{"), TokStr(k), Tok(":"), Ws, Num(n), Tok("}")>>
\* {"a": "x", "B": 30}
JsonScenario ==
    <<Tok("{"), TokStr(KeyA), Tok(":"), Ws, TokStr(StrX), Tok(","), Ws,
      TokStr(KeyUpperB), Tok(":"), Ws, Num(D30), Tok("}")>>
\* {"ab": 30, "B": -5, "ab": null}: one key twice
JsonDuplicate ==
    <<Tok("{"), TokStr(KeyAB), Tok(":"), Num(D30), Tok(","), TokStr(KeyUpperB), Tok(":"),
      TokNum(<<1>> \o D5), Tok(","), TokStr(KeyAB), Tok(":"), Tok("null"), Tok("}")>>
\* {"a": 18446744073709551616}
JsonTooBig == JsonIntDoc(KeyA, U64MaxPlus1)
\* { x }
JsonBareWord == <<Tok("{"), Ws, TokBare(StrX), Ws, Tok("}")>>
\* [30]
JsonArray == <<Tok("["), Num(D30), Tok("]")>>
\* {"a": 30,}
JsonTrailingComma == <<Tok("{"), TokStr(KeyA), Tok(":"), Num(D30), Tok(","), Tok("}")>>
\* {"a": 30
JsonUnclosed == <<Tok("{"), TokStr(KeyA), Tok(":"), Num(D30)>>

JsonDocs ==
    {JsonIntDoc(KeyA, n) : n \in IntLiterals}
        \cup {JsonScenario, JsonDuplicate, JsonTooBig, JsonBareWord, JsonArray,
              JsonTrailingComma, JsonUnclosed, <<>>}

\* k = n
TomlIntDoc(k, n) == <<TokKey(k), Ws, Tok("="), Ws, Num(n), Nl>>
\* a = "x" and B = 30 on two lines
TomlScenario ==
    <<TokKey(KeyA), Ws, Tok("="), Ws, TokStr(StrX), Nl,
      TokKey(KeyUpperB), Ws, Tok("="), Ws, Num(D30), Nl>>
\* a = 30 twice
TomlDuplicate == TomlIntDoc(KeyA, D30) \o TomlIntDoc(KeyA, D30)
\* a 30
TomlNoEquals == <<TokKey(KeyA), Ws, Num(D30), Nl>>
\* a =
TomlNoValue == <<TokKey(KeyA), Ws, Tok("="), Nl>>

TomlDocs ==
    {TomlIntDoc(KeyA, n) : n \in IntLiterals}
        \cup {TomlScenario, TomlDuplicate, TomlNoEquals, TomlNoValue, JsonBareWord}

\* k: n
YamlIntDoc(k, n) == <<TokPlain(k), Tok(":"), Ws, Num(n), Nl>>
\* a: x and B: 30 on two lines
YamlScenario ==
    <<TokPlain(KeyA), Tok(":"), Ws, TokPlain(StrX), Nl,
      TokPlain(KeyUpperB), Tok(":"), Ws, Num(D30), Nl>>
\* a 30
YamlNoColon == <<TokPlain(KeyA), Ws, Num(D30), Nl, TokPlain(KeyAB), Tok(":"), Ws, Num(D30), Nl>>
\* 30
YamlScalarDoc == <<Num(D30), Nl>>
\* a: [
YamlUnclosed == <<TokPlain(KeyA), Tok(":"), Ws, Tok("["), Nl>>

YamlDocs ==
    {YamlIntDoc(KeyA, n) : n \in IntLiterals}
        \cup {YamlScenario, YamlNoColon, YamlScalarDoc, YamlUnclosed, <<>>}

\* <x><a>x</a><B>30</B></x>
XmlScenario ==
    <<TokOpen(StrX), TokOpen(KeyA), TokText(StrX), TokClose(KeyA),
      TokOpen(KeyUpperB), TokText(<<51, 48>>), TokClose(KeyUpperB), TokClose(StrX)>>
\* <x></x>
XmlEmptyRoot == <<Decl, TokOpen(StrX), TokClose(StrX)>>
\* <x><a>x</x>
XmlMismatch == <<TokOpen(StrX), TokOpen(KeyA), TokText(StrX), TokClose(StrX)>>
\* <x><a>x</a>
XmlUnclosed == <<TokOpen(StrX), TokOpen(KeyA), TokText(StrX), TokClose(KeyA)>>
\* x
XmlTextOnly == <<TokText(StrX)>>

XmlDocs == {XmlScenario, XmlEmptyRoot, XmlMismatch, XmlUnclosed, XmlTextOnly, <<>>}

\* the texts of the results that are texts
Texts(results) == {r.val : r \in {x \in results : x.is = "Ok"}}

\* a Context whose XML text the model can read back: with several entries
\* the text has several outermost elements
XmlReadable(c) ==
    \/ c.inner = <<>>
    \/ Len(c.inner) = 1 /\ c.inner[1][2].tag \in IntTags \cup {"String", "Bool"}

\* what a Context returned by from_F holds under each of its keys
HistoryOf(c) == [k \in BTreeKeys(c.inner) |-> BTreeGet(c.inner, k).v]

----------------------------------------------------------------------------
(* The calls *)

Init ==
    /\ ctx = ContextNew
    /\ written = <<>>
    /\ res = [op |-> "new"]

\* what the Context held under k before v was written there
Was(c, k, v) ==
    IF BTreeGet(c.inner, k) = None THEN "absent"
    ELSE IF BTreeGet(c.inner, k) = Some(v) THEN "same"
    ELSE "other"

\* let ctx = Context::new()
New ==
    /\ ctx' = ContextNew
    /\ written' = <<>>
    /\ res' = [op |-> "new"]

\* ctx.insert(k, v)
Insert ==
    \E k \in Keys, v \in InsertValues :
        /\ k \in BTreeKeys(ctx.inner) \/ Len(ctx.inner) < MaxEntries
        /\ ctx' = ContextInsert(ctx, k, v)
        /\ written' = (k :> v) @@ written
        /\ res' = [op |-> "insert", k |-> k, v |-> v, was |-> Was(ctx, k, v)]

\* ctx.get(k)
Get ==
    \E k \in Keys :
        /\ res' = [op |-> "get", k |-> k, out |-> ContextGet(ctx, k)]
        /\ UNCHANGED <<ctx, written>>

\* ctx.extend(data)
Extend ==
    \E data \in DataMaps :
        /\ Cardinality(BTreeKeys(ctx.inner) \cup BTreeKeys(data)) <= MaxEntries
        /\ ctx' = ContextExtend(ctx, data)
        /\ written' = [k \in BTreeKeys(data) |-> BTreeGet(data, k).v] @@ written
        /\ res' = [op |-> "extend", data |-> data,
                   was |-> [k \in BTreeKeys(data) |-> Was(ctx, k, BTreeGet(data, k).v)]]

\* The caller parses a document it was given, and keeps the Context of an Ok,
\* or a text it has printed itself, and then goes on with the Context it has.
Adopt(given, out) ==
    IF given /\ out.is = "Ok"
    THEN ctx' = out.val /\ written' = HistoryOf(out.val)
    ELSE UNCHANGED <<ctx, written>>

\* Context::from_json(text)
FromJson ==
    \E text \in JsonDocs \cup Texts({to_json(ctx, p) : p \in BOOLEAN}) :
        /\ res' = [op |-> "from_json", text |-> text, out |-> from_json(text)]
        /\ Adopt(text \in JsonDocs, res'.out)

\* Context::from_toml(text)
FromToml ==
    \E text \in TomlDocs \cup Texts(to_toml(ctx, TRUE) \cup to_toml(ctx, FALSE)) :
        /\ res' = [op |-> "from_toml", text |-> text, out |-> from_toml(text)]
        /\ Adopt(text \in TomlDocs, res'.out)

\* Context::from_yaml(text)
FromYaml ==
    \E text \in YamlDocs \cup Texts(to_yaml(ctx)) :
        /\ res' = [op |-> "from_yaml", text |-> text, out |-> from_yaml(text)]
        /\ Adopt(text \in YamlDocs, res'.out)

\* Context::from_xml(text)
FromXml ==
    \E text \in XmlDocs \cup (IF XmlReadable(ctx) THEN Texts(to_xml(ctx)) ELSE {}) :
        /\ res' = [op |-> "from_xml", text |-> text, out |-> from_xml(text)]
        /\ Adopt(text \in XmlDocs, res'.out)

\* ctx.to_json(pretty)
ToJson ==
    \E pretty \in BOOLEAN :
        /\ res' = [op |-> "to_json", pretty |-> pretty, out |-> to_json(ctx, pretty)]
        /\ UNCHANGED <<ctx, written>>

\* ctx.to_toml(pretty)
ToToml ==
    \E pretty \in BOOLEAN :
        \E out \in to_toml(ctx, pretty) :
            /\ res' = [op |-> "to_toml", pretty |-> pretty, out |-> out]
            /\ UNCHANGED <<ctx, written>>

\* ctx.to_yaml()
ToYaml ==
    \E out \in to_yaml(ctx) :
        /\ res' = [op |-> "to_yaml", pretty |-> FALSE, out |-> out]
        /\ UNCHANGED <<ctx, written>>

\* ctx.to_xml()
ToXml ==
    \E out \in to_xml(ctx) :
        /\ res' = [op |-> "to_xml", pretty |-> FALSE, out |-> out]
        /\ UNCHANGED <<ctx, written>>

Next ==
    \/ New \/ Insert \/ Get \/ Extend
    \/ FromJson \/ FromToml \/ FromYaml \/ FromXml
    \/ ToJson \/ ToToml \/ ToYaml \/ ToXml

Spec == Init /\ [][Next]_vars

----------------------------------------------------------------------------
(* Claims *)

Ascending(s) == \A i, j \in 1..Len(s) : i < j => StrLess(s[i], s[j])

RECURSIVE TopKeys(_, _)
\* the member names of the outermost object of a JSON text, in the order they
\* stand in the text
TopKeys(ts, depth) ==
    IF ts = <<>> THEN <<>>
    ELSE IF Head(ts)[1] \in {"{", "["} THEN TopKeys(Tail(ts), depth + 1)
    ELSE IF Head(ts)[1] \in {"}", "]"} THEN TopKeys(Tail(ts), depth - 1)
    ELSE IF depth = 1 /\ Head(ts)[1] = "str" /\ Len(ts) >= 2 /\ ts[2][1] = ":"
    THEN <<Head(ts)[2]>> \o TopKeys(Tail(ts), depth)
    ELSE TopKeys(Tail(ts), depth)

FromOps == {"from_json", "from_toml", "from_yaml", "from_xml"}
ToOps == {"to_json", "to_toml", "to_yaml", "to_xml"}

C2_Upsert ==
    res.op = "insert" =>
        /\ ContextGet(ctx, res.k) = Some(res.v)
        /\ Cardinality({i \in 1..Len(ctx.inner) : ctx.inner[i][1] = res.k}) = 1

\* insert replaced a different value
C2_Witness ==
    /\ res.op = "insert"
    /\ res.was = "other"
    /\ ContextGet(ctx, res.k) = Some(res.v)

RECURSIVE InsertEach(_, _)
\* insert(k, v) for each entry of data, in the order of data
InsertEach(c, data) ==
    IF data = <<>> THEN c
    ELSE InsertEach(ContextInsert(c, Head(data)[1], Head(data)[2]), Tail(data))

\* C3: extend(data) leaves the Context as inserting the entries of data one by
\* one does: under every key of data the value of data, under every other key
\* what was there before.
C3_ExtendAsInserts ==
    [][res'.op = "extend" =>
          /\ ctx' = InsertEach(ctx, res'.data)
          /\ \A k \in Keys :
                ContextGet(ctx', k) =
                    IF k \in BTreeKeys(res'.data) THEN BTreeGet(res'.data, k)
                    ELSE ContextGet(ctx, k)]_vars

\* extend overwrote a key that held another value
C3_Witness ==
    /\ res.op = "extend"
    /\ \E k \in DOMAIN res.was :
          /\ res.was[k] = "other"
          /\ ContextGet(ctx, k) = BTreeGet(res.data, k)

RECURSIVE JsonRepresentable(_)
\* a Value JSON has a notation for: null, a boolean, a number, a string, an
\* array of such values, an object of such values under string keys
JsonRepresentable(v) ==
    CASE v.tag \in IntTags \cup {"F64", "String", "Bool", "Unit"} -> TRUE
      [] v.tag = "Seq" -> \A i \in 1..Len(v.kids) : JsonRepresentable(v.kids[i])
      [] v.tag = "Map" ->
            \A i \in 1..Len(MapPairs(v)) :
                /\ MapPairs(v)[i][1].tag = "String"
                /\ JsonRepresentable(MapPairs(v)[i][2])
      [] OTHER -> FALSE

RECURSIVE JsonKind(_)
\* a Value with every integer in the kind a JSON number is read into: U64, or
\* I64 when it is negative
JsonKind(v) ==
    CASE v.tag \in IntTags ->
            IntV(IF IntNeg(v) = 1 THEN "I64" ELSE "U64", IntNeg(v), IntMag(v))
      [] v.tag \in {"Seq", "Map"} ->
            [v EXCEPT !.kids = [i \in 1..Len(v.kids) |-> JsonKind(v.kids[i])]]
      [] OTHER -> v

\* the Context is built from values JSON can represent
AllRepresentable(c) == \A i \in 1..Len(c.inner) : JsonRepresentable(c.inner[i][2])

\* the text is what to_json gave for the Context, indented or compact
PrintedJson(c, text) == \E p \in BOOLEAN : to_json(c, p) = Ok(text)

ParserOf(op, text) ==
    CASE op = "from_json" -> SerdeJsonFromStr(text)
      [] op = "from_toml" -> TomlFromStr(text)
      [] op = "from_yaml" -> SerdeYamlFromStr(text)
      [] op = "from_xml" -> SerdeXmlFromStr(text)

KindOf(op) ==
    CASE op \in {"from_json", "to_json"} -> "Json"
      [] op \in {"from_toml", "to_toml"} -> "Toml"
      [] op \in {"from_yaml", "to_yaml"} -> "Yaml"
      [] op \in {"from_xml", "to_xml"} -> "Xml"

\* C5: when the parser of the format rejects the text, from_F returns an error
\* of the kind of that format with the message of the parser as its only
\* content; it neither panics nor returns a Context.
C5_ParserRejects ==
    (res.op \in FromOps /\ ~ParserOf(res.op, res.text).ok)
          => res.out = Err([kind |-> KindOf(res.op),
                            message |-> to_string(ParserOf(res.op, res.text).err)])

\* the YAML parser rejected a text, and the Context the caller holds has entries
C5_Witness ==
    /\ res.op = "from_yaml"
    /\ res.text = YamlNoColon
    /\ res.out.is = "Err"
    /\ ctx.inner # <<>>

\* the text is one that to_F can give for the empty Context
PrintedEmpty(op, text) ==
    CASE op = "from_json" -> \E p \in BOOLEAN : to_json(ContextNew, p) = Ok(text)
      [] op = "from_toml" -> \E p \in BOOLEAN : Ok(text) \in to_toml(ContextNew, p)
      [] op = "from_yaml" -> Ok(text) \in to_yaml(ContextNew)
      [] op = "from_xml" -> Ok(text) \in to_xml(ContextNew)

\* C6 as stated: in each of the four formats to_F of the empty Context returns
\* a text, and from_F of that text returns a Context with no entries.
C6_EmptyRoundTrip ==
    /\ (res.op \in ToOps /\ ctx = ContextNew) => res.out.is = "Ok"
    /\ (res.op \in FromOps /\ PrintedEmpty(res.op, res.text)) => res.out = Ok(ContextNew)

\* C6 in JSON, TOML and YAML: to_F of the empty Context returns a text and
\* from_F of it returns a Context with no entries.  In XML to_xml returns a
\* text that holds no element, and from_xml rejects it with an Xml error.
C6_EmptyRoundTripButXml ==
    /\ (res.op \in ToOps /\ ctx = ContextNew) => res.out.is = "Ok"
    /\ (res.op \in FromOps \ {"from_xml"} /\ PrintedEmpty(res.op, res.text))
          => res.out = Ok(ContextNew)
    /\ (res.op = "from_xml" /\ PrintedEmpty(res.op, res.text))
          => res.out.is = "Err" /\ res.out.err.kind = "Xml"

\* from_xml was given the text of to_xml for the empty Context
C6_Witness ==
    /\ res.op = "from_xml"
    /\ PrintedEmpty(res.op, res.text)
    /\ ctx = ContextNew

\* a Context with the one entry k: v
Single(k, v) == [inner |-> <<<<k, v>>>>]

\* C7 as stated: for a non-negative integer literal n that fits 64 bits,
\* from_json and from_yaml store U64(n), both the same Context, and from_toml
\* stores I64(n).
C7_IntegerKinds ==
    \A n \in IntLiterals :
        /\ (res.op = "from_json" /\ res.text = JsonIntDoc(KeyA, n))
              => res.out = Ok(Single(KeyA, IntV("U64", 0, n)))
        /\ (res.op = "from_yaml" /\ res.text = YamlIntDoc(KeyA, n))
              => res.out = from_json(JsonIntDoc(KeyA, n))
        /\ (res.op = "from_toml" /\ res.text = TomlIntDoc(KeyA, n))
              => res.out = Ok(Single(KeyA, IntV("I64", 0, n)))

\* C7, amended: for a non-negative integer literal n up to 2^64 - 1,
\* from_json and from_yaml store U64(n), both the same Context; from_toml
\* stores I64(n) when n is at most 2^63 - 1 and returns a Toml error otherwise.
C7_IntegerKindsInRange ==
    \A n \in IntLiterals :
        /\ (res.op = "from_json" /\ res.text = JsonIntDoc(KeyA, n))
              => res.out = Ok(Single(KeyA, IntV("U64", 0, n)))
        /\ (res.op = "from_yaml" /\ res.text = YamlIntDoc(KeyA, n))
              => /\ res.out = from_json(JsonIntDoc(KeyA, n))
                 /\ res.out = Ok(Single(KeyA, IntV("U64", 0, n)))
        /\ (res.op = "from_toml" /\ res.text = TomlIntDoc(KeyA, n))
              => IF NumLeq(n, I64Max)
                 THEN res.out = Ok(Single(KeyA, IntV("I64", 0, n)))
                 ELSE res.out.is = "Err" /\ res.out.err.kind = "Toml"

\* from_toml was given 2^63, which JSON and YAML store as a U64
C7_Witness ==
    /\ res.op = "from_toml"
    /\ res.text = TomlIntDoc(KeyA, I64MaxPlus1)
    /\ res.out.is = "Err"
    /\ from_yaml(YamlIntDoc(KeyA, I64MaxPlus1)) = Ok(Single(KeyA, IntV("U64", 0, I64MaxPlus1)))

\* what the printer of the format can say of the Context
PrinterOf(op, c, pretty) ==
    CASE op = "to_json" -> {SerdeJsonToString(c, pretty)}
      [] op = "to_toml" -> TomlToString(c, pretty)
      [] op = "to_yaml" -> SerdeYamlToString(c)
      [] op = "to_xml" -> SerdeXmlToString(c)

\* C8: to_F returns the text the printer produced, or, when the printer
\* failed, an error of the kind of the format and no text; the Context is the
\* same after the call as before.
C8_PrinterOutcome ==
    /\ [](res.op \in ToOps =>
            \E said \in PrinterOf(res.op, ctx, res.pretty) :
                IF said.ok THEN res.out = Ok(said.val)
                ELSE res.out = Err([kind |-> KindOf(res.op), message |-> to_string(said.err)]))
    /\ [][res'.op \in ToOps => ctx' = ctx /\ written' = written]_vars

\* the JSON printer refused a map whose key is not a string
C8_Witness ==
    /\ res.op = "to_json"
    /\ res.out.is = "Err"
    /\ \E i \in 1..Len(ctx.inner) : ctx.inner[i][2] = VMapUnit

\* C9: get(k) is None exactly for the keys never written since new(), and
\* Some of the value last written for the others; a get changes nothing.
C9_GetFrame ==
    /\ \A k \in Keys :
          ContextGet(ctx, k) = IF k \in DOMAIN written THEN Some(written[k]) ELSE None
    /\ res.op = "get" => res.out = ContextGet(ctx, res.k)
    /\ res.op = "new" => \A k \in Keys : ContextGet(ctx, k) = None

\* a get of a key never written, on a Context that holds others
C9_Witness ==
    /\ res.op = "get"
    /\ res.out = None
    /\ ctx.inner # <<>>

\* the conversion from_F applies to a value of the tree of the parser
ConvertOf(op, v) ==
    IF op \in {"from_json", "from_yaml"} THEN ValueFromJson(v) ELSE Revisit(v)

\* C10: a Context returned by from_F has one entry for each key of the map the
\* parser produced and no other entry, each holding the converted value of
\* that key; an entry whose conversion fails makes the call panic.
C10_EntryPerKey ==
    /\ (res.op \in FromOps /\ res.out.is = "Ok") =>
          LET m == ParserOf(res.op, res.text).val
              c == res.out.val
          IN  /\ BTreeKeys(c.inner) = BTreeKeys(m)
              /\ Len(c.inner) = Cardinality(BTreeKeys(m))
              /\ \A k \in BTreeKeys(m) :
                    ContextGet(c, k) = Some(ConvertOf(res.op, BTreeGet(m, k).v))
    /\ res.op \in FromOps => (res.out.is = "Ok" <=> ParserOf(res.op, res.text).ok)
    /\ CollectConverted(<< <<KeyA, Good(VString)>>,
                           <<KeyAB, Bad([msg |-> "invalid type", at |-> 0])>> >>) = Panic

\* from_json returned a Context for a text that names one key twice
C10_Witness ==
    /\ res.op = "from_json"
    /\ res.text = JsonDuplicate
    /\ res.out.is = "Ok"
    /\ Len(res.out.val.inner) = 2

\* C11: insert(k, v) changes only the entry of k: get(j) is the same before
\* and after the call for every other key j, and the number of entries grows
\* by one when k was absent and stays the same when k was present.
C11_InsertFrame ==
    [][res'.op = "insert" =>
          /\ \A j \in Keys \ {res'.k} : ContextGet(ctx', j) = ContextGet(ctx, j)
          /\ Len(ctx'.inner) =
                IF res'.k \in BTreeKeys(ctx.inner) THEN Len(ctx.inner)
                ELSE Len(ctx.inner) + 1]_vars

\* insert replaced the value of a key in a Context that holds another key too
C11_Witness ==
    /\ res.op = "insert"
    /\ res.was = "other"
    /\ Len(ctx.inner) = 2
    /\ \E j \in Keys \ {res.k} : ContextGet(ctx, j) # None

====
